---- MODULE Spec2Model ----
(***************************************************************************)
(* Model of the WalletPage balance projection pipeline (problem 3):        *)
(* filter -> sort -> format, in its three variants                         *)
(*   exam       src/problem3/exam/src/WalletPage.tsx, lines 1-133          *)
(*   optimal    src/problem3/exam/src/WalletPage.tsx, lines 134-228        *)
(*   refactored src/problem3/refactored.tsx                                *)
(* together with the useMemo caches that decide which stage a re-render    *)
(* executes.                                                               *)
(*                                                                         *)
(* JavaScript numbers are fixed-point values counted in thousandths        *)
(* (2.5 is 2500); the two non-numeric results the code can produce, NaN    *)
(* and undefined, are separate kinds of the same record.                   *)
(***************************************************************************)
EXTENDS Integers, Sequences, FiniteSets, TLC

VARIABLES
    balances,               \* the balance list handed to the components
    prices,                 \* the price table handed to the components
    balancesRef,            \* identity of the balances array (Object.is)
    pricesRef,              \* identity of the prices object (Object.is)
    examSortedBalances,     \* exam: useMemo cell of sortedBalances
    examRows,               \* exam: useMemo cell of rows
    refFormattedBalances,   \* refactored: useMemo cell of formattedBalances
    refRows,                \* refactored: rows of the last render
    optFormattedBalances,   \* optimal: useMemo cell of formattedBalances
    optRows,                \* optimal: rows of the last render
    executed,               \* stages the last render executed, per variant
    raised,                 \* error the last render threw, per variant
    call,                   \* problem 1: the last call of a sum function
    initStage,              \* swap form: position of init()
    response,               \* swap form: what the price request produced
    tokens,                 \* swap form: the token list built by fetchPrices
    selectedFromToken,      \* swap form: currency code or null
    selectedToToken,        \* swap form: currency code or null
    currentModalTarget,     \* swap form: side the token modal was opened for
    tokenModalDisplay,      \* swap form: style.display of the token modal
    tokenListItems,         \* swap form: the items rendered in the token list
    isSwapping,             \* swap form: the in-progress flag
    fromAmountValue,        \* swap form: value of the amount input
    fromErrorText,          \* swap form: text of the amount error element
    submitDisabled,         \* swap form: disabled property of the submit button
    successDisplay,         \* swap form: whether the success message shows
    swapTimers,             \* swap form: simulated backend requests pending
    resetTimers,            \* swap form: resetForm timers pending
    appStage,               \* swap app: position of init()
    apiResponse,            \* swap app: what the price request produced
    appState,               \* swap app: the AppState object
    currentModalType,       \* swap app: side the token modal was opened for
    fromAmountInput,        \* swap app: value of the from-amount input
    toAmountInput,          \* swap app: value of the to-amount input
    swapButtonDisabled,     \* swap app: disabled property of the swap button
    pendingSwaps,           \* swap app: handleSwapSubmit calls awaiting the swap
    disableTimers,          \* swap app: showSuccessState timers pending
    swapsSubmitted          \* swap app: simulated swaps started so far

walletVars == <<balances, prices, balancesRef, pricesRef, examSortedBalances,
                examRows, refFormattedBalances, refRows, optFormattedBalances,
                optRows, executed, raised>>

formVars == <<initStage, response, tokens, selectedFromToken, selectedToToken,
              currentModalTarget, tokenModalDisplay, tokenListItems, isSwapping,
              fromAmountValue, fromErrorText, submitDisabled, successDisplay,
              swapTimers, resetTimers>>

appVars == <<appStage, apiResponse, appState, currentModalType, fromAmountInput,
             toAmountInput, swapButtonDisabled, pendingSwaps, disableTimers,
             swapsSubmitted>>

vars == <<walletVars, call, formVars, appVars>>

-----------------------------------------------------------------------------
(* Bounds                                                                  *)

\* longest balance list drawn freely from BalanceUniverse
MaxLen == 3

\* number of input changes (new balances array or new prices object)
MaxChanges == 2

-----------------------------------------------------------------------------
(* JavaScript values                                                       *)

Num(v) == [kind |-> "number", v |-> v]

NaN == [kind |-> "NaN", v |-> 0]

Undefined == [kind |-> "undefined", v |-> 0]

\* a * b: undefined converts to NaN, NaN is absorbing.  The product of two
\* values in thousandths is computed in two parts to stay within 32 bits.
JsMul(a, b) ==
    IF a.kind = "number" /\ b.kind = "number"
    THEN Num((a.v \div 1000) * b.v + ((a.v % 1000) * b.v) \div 1000)
    ELSE NaN

\* a - b
JsSub(a, b) ==
    IF a.kind = "number" /\ b.kind = "number" THEN Num(a.v - b.v) ELSE NaN

\* a > b: any comparison with NaN or undefined is false
JsGt(a, b) == a.kind = "number" /\ b.kind = "number" /\ a.v > b.v

\* a ?? b: b replaces null and undefined only
Nullish(a, b) == IF a.kind = "undefined" THEN b ELSE a

\* a value that is neither a number nor undefined (a function, an object):
\* it converts to NaN in arithmetic and comparisons, and ?? keeps it
Inherited == [kind |-> "object", v |-> 0]

\* property names every object literal inherits from Object.prototype
ObjectPrototypeKeys ==
    {"constructor", "toString", "toLocaleString", "valueOf", "hasOwnProperty",
     "isPrototypeOf", "propertyIsEnumerable", "__proto__"}

\* obj[key] on an object literal: the own property, else the property
\* inherited from Object.prototype, else undefined
Lookup(obj, key) ==
    IF key \in DOMAIN obj THEN obj[key]
    ELSE IF key \in ObjectPrototypeKeys THEN Inherited
    ELSE Undefined

-----------------------------------------------------------------------------
(* Number.prototype.toFixed                                                *)

DigitChar(d) == <<"0", "1", "2", "3", "4", "5", "6", "7", "8", "9">>[d + 1]

RECURSIVE Digits(_)
\* decimal digits of a natural number, most significant first
Digits(n) ==
    IF n < 10 THEN <<DigitChar(n)>>
    ELSE Append(Digits(n \div 10), DigitChar(n % 10))

RECURSIVE Pow10(_)
Pow10(f) == IF f = 0 THEN 1 ELSE 10 * Pow10(f - 1)

RECURSIVE PadLeft(_, _)
\* at least k characters, padded on the left with "0"
PadLeft(s, k) == IF Len(s) >= k THEN s ELSE PadLeft(<<"0">> \o s, k)

\* x.toFixed(f) for a non-negative x in thousandths: n is the integer for
\* which n / 10^f - x is closest to zero, the larger one on a tie; the
\* result is the digits of n with a point before the last f of them, and no
\* point at all when f = 0
ToFixedNonNeg(x, f) ==
    LET n == (2 * x * Pow10(f) + 1000) \div 2000
        m == PadLeft(Digits(n), f + 1)
        k == Len(m) - f
    IN  IF f = 0 THEN m
        ELSE SubSeq(m, 1, k) \o <<".">> \o SubSeq(m, k + 1, Len(m))

\* x.toFixed(f); x.toFixed() is x.toFixed(0)
ToFixed(x, f) ==
    IF x.kind # "number" THEN <<"N", "a", "N">>
    ELSE IF x.v < 0 THEN <<"-">> \o ToFixedNonNeg(-x.v, f)
    ELSE ToFixedNonNeg(x.v, f)

\* x.toFixed(f) throws a TypeError when x has no toFixed method, as undefined
\* (a missing amount field) has none; NaN has one
ToFixedThrows(x) == x.kind \notin {"number", "NaN"}

-----------------------------------------------------------------------------
(* React.useMemo                                                           *)

\* The cell keeps the dependency list of the render that computed its value.
\* An array a factory returns is a fresh object, so the identity of a cell's
\* value is the dependency list it was computed under.
UseMemo(cell, deps, fresh) ==
    IF cell.deps = deps THEN cell ELSE [deps |-> deps, value |-> fresh]

\* whether the factory of the cell runs in a render with these dependencies
Recomputes(cell, deps) == cell.deps # deps

\* the cell after the first render
Mounted(deps, fresh) == [deps |-> deps, value |-> fresh]

-----------------------------------------------------------------------------
(* Chain priorities                                                        *)

\* an integer literal
Whole(n) == Num(n * 1000)

BLOCKCHAIN_PRIORITIES ==
    [Osmosis |-> Whole(100), Ethereum |-> Whole(50), Arbitrum |-> Whole(30),
     Zilliqa |-> Whole(20), Neo |-> Whole(20)]

DEFAULT_PRIORITY == Whole(-99)

\* exam variant (declared inside the component)
examGetPriority(blockchain) ==
    Nullish(Lookup(BLOCKCHAIN_PRIORITIES, blockchain), DEFAULT_PRIORITY)

\* optimal variant
getPriority(blockchain) ==
    Nullish(Lookup(BLOCKCHAIN_PRIORITIES, blockchain), DEFAULT_PRIORITY)

\* the table of the refactored variant
refBLOCKCHAIN_PRIORITIES ==
    [Osmosis |-> Whole(100), Ethereum |-> Whole(50), Arbitrum |-> Whole(30),
     Zilliqa |-> Whole(20), Neo |-> Whole(20)]

\* refactored variant: the sentinel is the literal -99
refGetPriority(blockchain) ==
    Nullish(Lookup(refBLOCKCHAIN_PRIORITIES, blockchain), Whole(-99))

-----------------------------------------------------------------------------
(* Sort comparators and Array.prototype.sort                               *)

\* faulty variant: the two branches are exchanged (ascending order)
examComparator_Swapped(lhs, rhs) ==
    LET leftPriority == examGetPriority(lhs.blockchain)
        rightPriority == examGetPriority(rhs.blockchain)
    IN  IF JsGt(leftPriority, rightPriority) THEN Whole(1)
        ELSE IF JsGt(rightPriority, leftPriority) THEN Whole(-1)
        ELSE Whole(0)

examComparator(lhs, rhs) ==
    LET leftPriority == examGetPriority(lhs.blockchain)
        rightPriority == examGetPriority(rhs.blockchain)
    IN  IF JsGt(leftPriority, rightPriority) THEN Whole(-1)
        ELSE IF JsGt(rightPriority, leftPriority) THEN Whole(1)
        ELSE Whole(0)

\* faulty variant: a two-way comparison that never answers 0
refComparator_NeverZero(lhs, rhs) ==
    LET leftPriority == refGetPriority(lhs.blockchain)
        rightPriority == refGetPriority(rhs.blockchain)
    IN  IF JsGt(rightPriority, leftPriority) THEN Whole(1) ELSE Whole(-1)

refComparator(lhs, rhs) ==
    LET leftPriority == refGetPriority(lhs.blockchain)
        rightPriority == refGetPriority(rhs.blockchain)
    IN  JsSub(rightPriority, leftPriority)

\* faulty variant: the operands are exchanged (ascending order)
sortByPriorityDesc_Ascending(lhs, rhs) ==
    JsSub(getPriority(lhs.blockchain), getPriority(rhs.blockchain))

sortByPriorityDesc(lhs, rhs) ==
    JsSub(getPriority(rhs.blockchain), getPriority(lhs.blockchain))

\* the call comparefn(lhs, rhs) of the comparator of that name
CallComparefn(comparefn, lhs, rhs) ==
    CASE comparefn = "examComparator" -> examComparator(lhs, rhs)
      [] comparefn = "refComparator" -> refComparator(lhs, rhs)
      [] comparefn = "sortByPriorityDesc" -> sortByPriorityDesc(lhs, rhs)

RECURSIVE InsertSorted(_, _, _)
\* x goes before the first element y of the sorted prefix for which
\* comparefn(x, y) < 0 and after every other one; a result that is not a
\* number counts as +0
InsertSorted(comparefn, x, s) ==
    IF s = <<>> THEN <<x>>
    ELSE IF JsGt(Num(0), CallComparefn(comparefn, x, Head(s))) THEN <<x>> \o s
    ELSE <<Head(s)>> \o InsertSorted(comparefn, x, Tail(s))

RECURSIVE SortInto(_, _, _)
SortInto(comparefn, sorted, rest) ==
    IF rest = <<>> THEN sorted
    ELSE SortInto(comparefn, InsertSorted(comparefn, Head(rest), sorted),
                  Tail(rest))

\* s.sort(comparefn): ECMAScript requires the sort to be stable
ArraySort(comparefn, s) == SortInto(comparefn, <<>>, s)

\* sort works in place.  The contents of the input array bs after a chain
\* of calls whose sort has the given receiver: "filtered" is the fresh array
\* filter returned, "balances" the input array itself
InputAfterSort(receiver, comparefn, bs) ==
    IF receiver = "balances" THEN ArraySort(comparefn, bs) ELSE bs

\* balances.filter(...).sort(...) in the exam variant
examSortReceiver == "filtered"

\* balances.filter(...).sort(...) in the refactored variant
refSortReceiver == "filtered"

\* faulty variant: balances.sort(...) on the input array
optSortReceiver_Input == "balances"

\* balances.filter(...).sort(sortByPriorityDesc) in the optimal variant
optSortReceiver == "filtered"

-----------------------------------------------------------------------------
(* Exam variant                                                            *)

\* faulty variant: the amount test admits zero
examFilter_AdmitsZero(balance) ==
    LET balancePriority == examGetPriority(balance.blockchain)
    IN  /\ JsGt(balancePriority, DEFAULT_PRIORITY)
        /\ balance.amount.kind = "number"
        /\ balance.amount.v >= 0

examFilter(balance) ==
    LET balancePriority == examGetPriority(balance.blockchain)
    IN  JsGt(balancePriority, DEFAULT_PRIORITY) /\ JsGt(balance.amount, Whole(0))

\* faulty variant: the filtered list is returned without the sort
examSortedBalancesFactory_Unsorted(bs) == SelectSeq(bs, examFilter)

examSortedBalancesFactory(bs) == ArraySort("examComparator", SelectSeq(bs, examFilter))

examRow(balance, ps) ==
    LET usdValue == JsMul(Lookup(ps, balance.currency), balance.amount)
        formattedAmount == ToFixed(balance.amount, 0)
    IN  [key |-> balance.blockchain \o "-" \o balance.currency,
         amount |-> balance.amount,
         usdValue |-> usdValue,
         formattedAmount |-> formattedAmount]

examRowsFactory(sorted, ps) == [i \in 1..Len(sorted) |-> examRow(sorted[i], ps)]

-----------------------------------------------------------------------------
(* Refactored variant                                                      *)

\* faulty variant: the priority test admits the sentinel itself
refFilter_AdmitsSentinel(balance) ==
    LET balancePriority == refGetPriority(balance.blockchain)
    IN  /\ balancePriority.kind = "number"
        /\ balancePriority.v >= -99000
        /\ JsGt(balance.amount, Whole(0))

refFilter(balance) ==
    LET balancePriority == refGetPriority(balance.blockchain)
    IN  JsGt(balancePriority, Whole(-99)) /\ JsGt(balance.amount, Whole(0))

refFormat(balance, ps) ==
    [currency |-> balance.currency,
     amount |-> balance.amount,
     blockchain |-> balance.blockchain,
     formatted |-> ToFixed(balance.amount, 2),
     usdValue |-> JsMul(Lookup(ps, balance.currency), balance.amount)]

refFormattedBalancesFactory(bs, ps) ==
    LET sorted == ArraySort("refComparator", SelectSeq(bs, refFilter))
    IN  [i \in 1..Len(sorted) |-> refFormat(sorted[i], ps)]

\* faulty variant: the row shows the usdValue memoized with the balances
refRow_Memoized(balance, ps) ==
    [key |-> balance.currency,
     amount |-> balance.amount,
     usdValue |-> balance.usdValue,
     formattedAmount |-> balance.formatted]

refRow(balance, ps) ==
    LET usdValue == JsMul(Lookup(ps, balance.currency), balance.amount)
    IN  [key |-> balance.currency,
         amount |-> balance.amount,
         usdValue |-> usdValue,
         formattedAmount |-> balance.formatted]

\* rows = formattedBalances.map(...)
refRowsOf(formatted, ps) ==
    [i \in 1..Len(formatted) |-> refRow(formatted[i], ps)]

-----------------------------------------------------------------------------
(* Optimal variant                                                         *)

\* faulty variant: the amount test is inverted (the defect of the original exercise)
optFilter_Inverted(balance) ==
    JsGt(getPriority(balance.blockchain), DEFAULT_PRIORITY)
        /\ ~JsGt(balance.amount, Whole(0))

\* faulty variant: !(amount <= 0), which is true of NaN and undefined
optFilter_NotNonPositive(balance) ==
    JsGt(getPriority(balance.blockchain), DEFAULT_PRIORITY)
        /\ ~(balance.amount.kind = "number" /\ balance.amount.v <= 0)

optFilter(balance) ==
    JsGt(getPriority(balance.blockchain), DEFAULT_PRIORITY)
        /\ JsGt(balance.amount, Whole(0))

optFormat(balance, ps) ==
    LET formatted == ToFixed(balance.amount, 2)
        usdValue == JsMul(Nullish(Lookup(ps, balance.currency), Whole(0)),
                          balance.amount)
    IN  [currency |-> balance.currency,
         amount |-> balance.amount,
         blockchain |-> balance.blockchain,
         formatted |-> formatted,
         usdValue |-> usdValue]

optFormattedBalancesFactory(bs, ps) ==
    LET sorted == ArraySort("sortByPriorityDesc", SelectSeq(bs, optFilter))
    IN  [i \in 1..Len(sorted) |-> optFormat(sorted[i], ps)]

optRow(balance) ==
    [key |-> balance.currency,
     amount |-> balance.amount,
     usdValue |-> balance.usdValue,
     formattedAmount |-> balance.formatted]

\* formattedBalances.map(...) of the returned element
optRowsOf(formatted) == [i \in 1..Len(formatted) |-> optRow(formatted[i])]

-----------------------------------------------------------------------------
(* Inputs                                                                  *)

Balance(currency, amount, blockchain) ==
    [currency |-> currency, amount |-> Num(amount), blockchain |-> blockchain]

\* balances the lists of length at most MaxLen are built from (amounts in
\* thousandths): positive, zero, negative and fractional amounts, the two
\* chains of priority 20, one currency on two chains, and a chain that is
\* no key of the priority table
BalanceUniverse ==
    {Balance("ETH", 2500, "Ethereum"),
     Balance("OSMO", 0, "Osmosis"),
     Balance("ZIL", -5000, "Zilliqa"),
     Balance("ZIL", 1000000, "Zilliqa"),
     Balance("NEO", 15000, "Neo"),
     Balance("ETH", 125, "Arbitrum"),
     Balance("BTC", 125, "Bitcoin")}

\* malformed records: an amount that is NaN, a record without amount, a
\* record without blockchain (the key of the lookup is then "undefined"),
\* next to a well-formed one
malformedBalances ==
    <<[currency |-> "ETH", amount |-> NaN, blockchain |-> "Ethereum"],
      [currency |-> "OSMO", amount |-> Undefined, blockchain |-> "Osmosis"],
      Balance("ZIL", 5000, "undefined"),
      Balance("NEO", 15000, "Neo")>>

\* balances on chains whose names are property names of Object.prototype
inheritedNameBalances ==
    <<Balance("ETH", 2500, "Ethereum"),
      Balance("BTC", 1000, "constructor"),
      Balance("BTC", -1000, "toString"),
      Balance("OSMO", 100000, "Osmosis")>>

\* mockBalances of the demo application
mockBalances ==
    <<Balance("ETH", 2500, "Ethereum"),
      Balance("OSMO", 100000, "Osmosis"),
      Balance("ARB", 50000, "Arbitrum"),
      Balance("ZIL", 1000000, "Zilliqa"),
      Balance("NEO", 25000, "Neo"),
      Balance("BTC", 100, "Bitcoin"),
      Balance("ETH", -1000, "Ethereum")>>

\* mockPrices of the demo application
mockPrices ==
    [ETH |-> Num(2000000), OSMO |-> Num(2500), ARB |-> Num(1200),
     ZIL |-> Num(20), NEO |-> Num(15000), BTC |-> Num(40000000)]

\* the documented test input of comparison.md
comparisonBalances ==
    <<Balance("ETH", 10000, "Ethereum"),
      Balance("OSMO", 0, "Osmosis"),
      Balance("ZIL", -5000, "Zilliqa"),
      Balance("ARB", 20000, "Arbitrum"),
      Balance("NEO", 15000, "Neo")>>

BalanceLists ==
    UNION {[1..n -> BalanceUniverse] : n \in 0..MaxLen}
        \cup {mockBalances, comparisonBalances, inheritedNameBalances,
              malformedBalances}

\* the lists the balance provider hands over after the first render: the
\* empty list, the named lists, and a list whose first two balances have
\* equal priority and sort behind the third
ProviderUpdates ==
    {<<>>,
     mockBalances,
     comparisonBalances,
     inheritedNameBalances,
     <<Balance("NEO", 15000, "Neo"), Balance("ZIL", 1000000, "Zilliqa"),
       Balance("ETH", 2500, "Ethereum")>>}

\* the empty table, the demo table, and a partial table that prices ETH
\* differently
PriceTables ==
    {<<>>,
     mockPrices,
     [ETH |-> Num(1000000), NEO |-> Num(15000)]}

-----------------------------------------------------------------------------
(* The three components                                                    *)

examSortedDeps(bRef) == <<bRef>>

\* faulty variant: [sortedBalances, classes.row], prices left out
examRowsDeps_NoPrices(sorted, pRef) == <<sorted.deps, "wallet-row">>

\* [sortedBalances, prices, classes.row]
examRowsDeps(sorted, pRef) == <<sorted.deps, pRef, "wallet-row">>

refDeps(bRef) == <<bRef>>

optDeps(bRef, pRef) == <<bRef, pRef>>

\* exam WalletPage rendered with the inputs (bs, ps) of identities (bRef, pRef)
ExamWalletPage(bs, bRef, ps, pRef) ==
    /\ examSortedBalances' = UseMemo(examSortedBalances, examSortedDeps(bRef),
                                     examSortedBalancesFactory(bs))
    /\ examRows' = UseMemo(examRows, examRowsDeps(examSortedBalances', pRef),
                           examRowsFactory(examSortedBalances'.value, ps))

\* refactored WalletPage: rows is mapped from the memoized list on each render
RefWalletPage(bs, bRef, ps, pRef) ==
    /\ refFormattedBalances' = UseMemo(refFormattedBalances, refDeps(bRef),
                                       refFormattedBalancesFactory(bs, ps))
    /\ refRows' = refRowsOf(refFormattedBalances'.value, ps)

\* optimal WalletPage
OptWalletPage(bs, bRef, ps, pRef) ==
    /\ optFormattedBalances' = UseMemo(optFormattedBalances, optDeps(bRef, pRef),
                                       optFormattedBalancesFactory(bs, ps))
    /\ optRows' = optRowsOf(optFormattedBalances'.value)

\* the stages a render with these input identities executes: filterSort is
\* the filter and sort of the balance list, format the map that computes the
\* usdValue handed to each row (the refactored variant maps its rows outside
\* useMemo, on every render)
Executes(bRef, pRef) ==
    LET sorted == UseMemo(examSortedBalances, examSortedDeps(bRef), <<>>)
    IN  [exam |-> [filterSort |-> Recomputes(examSortedBalances,
                                             examSortedDeps(bRef)),
                   format |-> Recomputes(examRows,
                                         examRowsDeps(sorted, pRef))],
         refactored |-> [filterSort |-> Recomputes(refFormattedBalances,
                                                   refDeps(bRef)),
                         format |-> TRUE],
         optimal |-> [filterSort |-> Recomputes(optFormattedBalances,
                                                optDeps(bRef, pRef)),
                      format |-> Recomputes(optFormattedBalances,
                                            optDeps(bRef, pRef))]]

\* the contents of the input array bs once the variants that executed their
\* filter and sort (ex) are done with it
InputAfterRender(bs, ex) ==
    LET e == IF ex.exam.filterSort
             THEN InputAfterSort(examSortReceiver, "examComparator", bs)
             ELSE bs
        r == IF ex.refactored.filterSort
             THEN InputAfterSort(refSortReceiver, "refComparator", e)
             ELSE e
    IN  IF ex.optimal.filterSort
        THEN InputAfterSort(optSortReceiver, "sortByPriorityDesc", r)
        ELSE r

\* balance.amount.toFixed(...) is called on every balance of the list a
\* variant formats; the call that throws ends the render of that variant
Thrown(formatted) ==
    IF \E i \in 1..Len(formatted) : ToFixedThrows(formatted[i].amount)
    THEN "TypeError"
    ELSE "none"

\* the error each variant's render throws, by the lists they format
Raises(sorted, refFormatted, optFormatted) ==
    [exam |-> Thrown(sorted),
     refactored |-> Thrown(refFormatted),
     optimal |-> Thrown(optFormatted)]

Render(bs, bRef, ps, pRef) ==
    /\ ExamWalletPage(bs, bRef, ps, pRef)
    /\ RefWalletPage(bs, bRef, ps, pRef)
    /\ OptWalletPage(bs, bRef, ps, pRef)
    /\ executed' = Executes(bRef, pRef)
    /\ balances' = InputAfterRender(bs, executed')
    /\ raised' = Raises(examSortedBalances'.value, refFormattedBalances'.value,
                        optFormattedBalances'.value)

-----------------------------------------------------------------------------
(* Specification                                                           *)

\* the first render (mount) of the three components on the input (bs, ps)
Mount(bs, ps) ==
    /\ executed = [v \in {"exam", "refactored", "optimal"} |->
                       [filterSort |-> TRUE, format |-> TRUE]]
    /\ balances = InputAfterRender(bs, executed)
    /\ prices = ps
    /\ balancesRef = 0
    /\ pricesRef = 0
    /\ examSortedBalances =
           Mounted(examSortedDeps(0), examSortedBalancesFactory(bs))
    /\ examRows =
           Mounted(examRowsDeps(examSortedBalances, 0),
                   examRowsFactory(examSortedBalances.value, ps))
    /\ refFormattedBalances =
           Mounted(refDeps(0), refFormattedBalancesFactory(bs, ps))
    /\ refRows = refRowsOf(refFormattedBalances.value, ps)
    /\ optFormattedBalances =
           Mounted(optDeps(0, 0), optFormattedBalancesFactory(bs, ps))
    /\ optRows = optRowsOf(optFormattedBalances.value)
    /\ raised = Raises(examSortedBalances.value, refFormattedBalances.value,
                       optFormattedBalances.value)

(***************************************************************************)
(* Problem 2: the two token swap pages as their scripts leave them at load, *)
(* before the price request of init() has come back                         *)
(***************************************************************************)

\* null, as held by the selected tokens and the modal target
Null == "null"

\* no response of the price request has arrived yet
NoResponse == [ok |-> FALSE, data |-> <<>>, arrived |-> FALSE]

\* the submit button of the swap form is disabled in the page's markup
submitBtnMarkupDisabled == TRUE

\* the swap form's selections, flags and elements before any event; the value
\* of the amount input is the sequence of its characters
FormIdle ==
    /\ selectedFromToken = Null
    /\ selectedToToken = Null
    /\ currentModalTarget = Null
    /\ tokenModalDisplay = "none"
    /\ tokenListItems = <<>>
    /\ isSwapping = FALSE
    /\ fromAmountValue = <<>>
    /\ fromErrorText = ""
    /\ submitDisabled = submitBtnMarkupDisabled
    /\ successDisplay = "none"
    /\ swapTimers = 0
    /\ resetTimers = 0

\* the swap form when init() is called: no token is loaded yet
FormStart ==
    /\ initStage = "fetching"
    /\ response = NoResponse
    /\ tokens = <<>>
    /\ FormIdle

\* new AppState(): empty maps and the default pair of tokens
NewAppState ==
    [tokenPrices |-> <<>>, userBalances |-> <<>>,
     selectedFromToken |-> "SWTH", selectedToToken |-> "ETH"]

\* the swap app's objects and elements when its init() is called
AppStart ==
    /\ appStage = "loading"
    /\ apiResponse = [status |-> "pending", data |-> <<>>]
    /\ appState = NewAppState
    /\ currentModalType = Null
    /\ fromAmountInput = <<>>
    /\ toAmountInput = <<>>
    /\ swapButtonDisabled = TRUE
    /\ pendingSwaps = <<>>
    /\ disableTimers = 0
    /\ swapsSubmitted = 0

\* no sum function has been called
NoCall == [fn |-> "none"]

Init ==
    /\ \E bs \in BalanceLists, ps \in PriceTables : Mount(bs, ps)
    /\ call = NoCall
    /\ FormStart
    /\ AppStart

\* the balance provider hands over a new array; the components re-render
ChangeBalances(bs) ==
    /\ balancesRef + pricesRef < MaxChanges
    /\ balancesRef' = balancesRef + 1
    /\ UNCHANGED <<prices, pricesRef, call, formVars, appVars>>
    /\ Render(bs, balancesRef + 1, prices, pricesRef)

\* the price provider hands over a new object; the components re-render
ChangePrices(ps) ==
    /\ balancesRef + pricesRef < MaxChanges
    /\ prices' = ps
    /\ pricesRef' = pricesRef + 1
    /\ UNCHANGED <<balancesRef, call, formVars, appVars>>
    /\ Render(balances, balancesRef, ps, pricesRef + 1)

\* the parent re-renders the components with the same inputs
Rerender ==
    /\ UNCHANGED <<balancesRef, prices, pricesRef, call, formVars, appVars>>
    /\ Render(balances, balancesRef, prices, pricesRef)

Next ==
    \/ \E bs \in ProviderUpdates : ChangeBalances(bs)
    \/ \E ps \in PriceTables : ChangePrices(ps)
    \/ Rerender

Spec == Init /\ [][Next]_vars

-----------------------------------------------------------------------------
(* What the claims speak about                                             *)

Variants == {"exam", "refactored", "optimal"}

\* the filtered and sorted list a variant maps its rows from
Retained(v) ==
    CASE v = "exam" -> examSortedBalances.value
      [] v = "refactored" -> refFormattedBalances.value
      [] v = "optimal" -> optFormattedBalances.value

\* the rows a variant hands to the renderer
Rows(v) ==
    CASE v = "exam" -> examRows.value
      [] v = "refactored" -> refRows
      [] v = "optimal" -> optRows

\* the input balance an element of Retained(v) stems from
AsBalance(r) ==
    [currency |-> r.currency, amount |-> r.amount, blockchain |-> r.blockchain]

\* the priority table as the specification states it
ConfiguredPriority ==
    [Osmosis |-> 100, Ethereum |-> 50, Arbitrum |-> 30, Zilliqa |-> 20,
     Neo |-> 20]

ConfiguredChains == DOMAIN ConfiguredPriority

\* an input balance the specification's filter retains
Qualifies(b) ==
    /\ b.blockchain \in ConfiguredChains
    /\ b.amount.kind = "number"
    /\ b.amount.v > 0

Occurrences(s, x) == Cardinality({i \in 1..Len(s) : s[i] = x})

-----------------------------------------------------------------------------
(* C1: in every reachable state, every row of every variant, and every     *)
(* retained balance it is mapped from, has a numeric amount greater than   *)
(* zero.                                                                   *)
C1_PositiveAmounts ==
    \A v \in Variants :
        /\ Len(Rows(v)) = Len(Retained(v))
        /\ \A i \in 1..Len(Rows(v)) :
               /\ Rows(v)[i].amount.kind = "number"
               /\ Rows(v)[i].amount.v > 0
               /\ Retained(v)[i].amount = Rows(v)[i].amount

\* a zero and a negative balance on configured chains were dropped while a
\* positive one was rendered by every variant
C1_Witness ==
    /\ \E i \in 1..Len(balances) :
           balances[i].amount.v = 0 /\ balances[i].blockchain \in ConfiguredChains
    /\ \E i \in 1..Len(balances) :
           balances[i].amount.v < 0 /\ balances[i].blockchain \in ConfiguredChains
    /\ \A v \in Variants : Len(Rows(v)) >= 1

(* C2: in every reachable state, every retained balance of every variant   *)
(* is on a chain that is a key of the priority table, so its priority is   *)
(* greater than the sentinel -99, whatever its amount.                     *)
C2_KnownChainsOnly ==
    \A v \in Variants :
        \A i \in 1..Len(Retained(v)) :
            /\ Retained(v)[i].blockchain \in ConfiguredChains
            /\ ConfiguredPriority[Retained(v)[i].blockchain] > -99

\* a positive balance on an unconfigured chain was dropped while another
\* balance was rendered by every variant
C2_Witness ==
    /\ \E i \in 1..Len(balances) :
           /\ balances[i].blockchain \notin ConfiguredChains
           /\ balances[i].amount.v > 0
    /\ \A v \in Variants : Len(Retained(v)) >= 1

(* C3: in every reachable state, the retained list of every variant holds  *)
(* each qualifying balance of the current input exactly as often as the    *)
(* input does, and holds nothing else.                                     *)
C3_ExactlyQualifying ==
    \A v \in Variants :
        LET out == [i \in 1..Len(Retained(v)) |-> AsBalance(Retained(v)[i])]
        IN  /\ \A i \in 1..Len(balances) :
                   Qualifies(balances[i]) =>
                       Occurrences(out, balances[i])
                           = Occurrences(balances, balances[i])
            /\ \A i \in 1..Len(out) :
                   \E j \in 1..Len(balances) :
                       balances[j] = out[i] /\ Qualifies(balances[j])

\* the input holds a qualifying balance twice and a balance that does not
\* qualify
C3_Witness ==
    /\ \E i, j \in 1..Len(balances) :
           i # j /\ balances[i] = balances[j] /\ Qualifies(balances[i])
    /\ \E i \in 1..Len(balances) : ~Qualifies(balances[i])
    /\ \A v \in Variants : Len(Retained(v)) = 2

(* C4: in every reachable state, the retained balances of every variant    *)
(* are in non-increasing order of chain priority.                          *)
C4_DescendingPriority ==
    \A v \in Variants :
        \A i \in 1..(Len(Retained(v)) - 1) :
            ConfiguredPriority[Retained(v)[i].blockchain]
                >= ConfiguredPriority[Retained(v)[i + 1].blockchain]

\* the sort moved a balance in front of one that precedes it in the input
C4_Witness ==
    /\ \E i, j \in 1..Len(balances) :
           /\ i < j
           /\ Qualifies(balances[i])
           /\ Qualifies(balances[j])
           /\ ConfiguredPriority[balances[i].blockchain]
                  < ConfiguredPriority[balances[j].blockchain]
    /\ \A v \in Variants : Len(Retained(v)) >= 2

\* the balances of s on chains of priority p, in their order in s
OfPriority(s, p) ==
    SelectSeq(s, LAMBDA b : ConfiguredPriority[b.blockchain] = p)

(* C5: in every reachable state, for every priority value, the retained    *)
(* balances of that priority appear in every variant in the order in which *)
(* they appear in the input.                                               *)
C5_StableSort ==
    \A v \in Variants :
        LET out == [i \in 1..Len(Retained(v)) |-> AsBalance(Retained(v)[i])]
            qualifying == SelectSeq(balances, Qualifies)
        IN  \A p \in {ConfiguredPriority[c] : c \in ConfiguredChains} :
                OfPriority(out, p) = OfPriority(qualifying, p)

\* two different balances of equal priority were both retained
C5_Witness ==
    /\ \E i, j \in 1..Len(balances) :
           /\ i < j
           /\ balances[i] # balances[j]
           /\ Qualifies(balances[i])
           /\ Qualifies(balances[j])
           /\ ConfiguredPriority[balances[i].blockchain]
                  = ConfiguredPriority[balances[j].blockchain]
    /\ \A v \in Variants : Len(Retained(v)) >= 2

(* C6: whenever the input is the documented list (ETH 10, OSMO 0, ZIL -5,  *)
(* ARB 20, NEO 15), every variant renders exactly three rows, for ETH, ARB  *)
(* and NEO in that order, with amounts 10, 20 and 15.                      *)
C6_DocumentedScenario ==
    balances = comparisonBalances =>
        \A v \in Variants :
            /\ [i \in 1..Len(Retained(v)) |-> Retained(v)[i].currency]
                   = <<"ETH", "ARB", "NEO">>
            /\ [i \in 1..Len(Rows(v)) |-> Rows(v)[i].amount]
                   = <<Whole(10), Whole(20), Whole(15)>>

\* the documented list was rendered after the provider replaced another list
C6_Witness ==
    /\ balances = comparisonBalances
    /\ balancesRef >= 1
    /\ \A v \in Variants : Len(Rows(v)) = 3

(* C7: in every reachable state, every row of every variant whose         *)
(* currency has no entry in the current price table carries the usdValue   *)
(* 0, a number.                                                            *)
C7_MissingPriceIsZero ==
    \A v \in Variants :
        \A i \in 1..Len(Rows(v)) :
            Retained(v)[i].currency \notin DOMAIN prices =>
                Rows(v)[i].usdValue = Num(0)

\* a sequence of decimal digits, a point, and exactly two decimal digits
TwoDecimals(s) ==
    LET digit == {DigitChar(d) : d \in 0..9}
    IN  /\ Len(s) >= 4
        /\ s[Len(s) - 2] = "."
        /\ \A i \in (1..Len(s)) \ {Len(s) - 2} : s[i] \in digit

(* C8: in every reachable state, the formattedAmount of every row of every *)
(* variant has exactly two digits after the decimal point; 2.5 is rendered *)
(* "2.50" and 10 is rendered "10.00".                                      *)
C8_TwoDecimalDigits ==
    \A v \in Variants :
        \A i \in 1..Len(Rows(v)) :
            /\ TwoDecimals(Rows(v)[i].formattedAmount)
            /\ Rows(v)[i].amount = Num(2500) =>
                   Rows(v)[i].formattedAmount = <<"2", ".", "5", "0">>
            /\ Rows(v)[i].amount = Whole(10) =>
                   Rows(v)[i].formattedAmount = <<"1", "0", ".", "0", "0">>

(* C9: in every step, a change of the prices object that leaves the        *)
(* balances array the same makes no variant execute its filter and sort    *)
(* while every variant executes its formatting map, and a variant executes *)
(* its filter and sort only in a step that changes the balances array.     *)
C9_PricesChangeReusesFilterSort ==
    [][/\ (pricesRef' # pricesRef /\ balancesRef' = balancesRef) =>
              \A v \in Variants :
                  ~executed'[v].filterSort /\ executed'[v].format
       /\ \A v \in Variants :
              executed'[v].filterSort => balancesRef' # balancesRef]_vars

(* C10: in every reachable state, for the chain name of every input        *)
(* balance, each getPriority returns the configured priority when the name *)
(* is a key of the priority table and the sentinel -99 otherwise, and the  *)
(* sentinel is lower than every configured priority.                       *)
C10_GetPriorityTotal ==
    /\ \A c \in ConfiguredChains :
           DEFAULT_PRIORITY.v < BLOCKCHAIN_PRIORITIES[c].v
    /\ \A i \in 1..Len(balances) :
           LET chain == balances[i].blockchain
               expected == IF chain \in ConfiguredChains
                           THEN Whole(ConfiguredPriority[chain])
                           ELSE Whole(-99)
           IN  /\ examGetPriority(chain) = expected
               /\ refGetPriority(chain) = expected
               /\ getPriority(chain) = expected

\* the priority the specification gives a chain name
PriorityOf(chain) ==
    IF chain \in ConfiguredChains THEN ConfiguredPriority[chain] ELSE -99

\* the sign of a comparator result; a result that is no number has none
Sign(r) ==
    CASE r.kind # "number" -> "none"
      [] r.kind = "number" /\ r.v < 0 -> "negative"
      [] r.kind = "number" /\ r.v = 0 -> "zero"
      [] r.kind = "number" /\ r.v > 0 -> "positive"

Comparators == {"examComparator", "refComparator", "sortByPriorityDesc"}

(* C11: in every reachable state, for every pair (lhs, rhs) of input       *)
(* balances each variant's comparator returns a number that is negative    *)
(* when lhs has the higher priority, positive when it has the lower one    *)
(* and zero when the priorities are equal, and the result for (rhs, lhs)   *)
(* has the opposite sign.                                                  *)
C11_ComparatorTrichotomy ==
    \A c \in Comparators :
        \A i, j \in 1..Len(balances) :
            LET lhs == balances[i]
                rhs == balances[j]
                r == CallComparefn(c, lhs, rhs)
                back == CallComparefn(c, rhs, lhs)
                pl == PriorityOf(lhs.blockchain)
                pr == PriorityOf(rhs.blockchain)
            IN  /\ Sign(r) = (CASE pl > pr -> "negative"
                                [] pl < pr -> "positive"
                                [] pl = pr -> "zero")
                /\ Sign(back) = (CASE pl > pr -> "positive"
                                   [] pl < pr -> "negative"
                                   [] pl = pr -> "zero")

\* the same for pairs of balances on chains that are not names of
\* properties every object inherits
C11_OrdinaryChains ==
    \A c \in Comparators :
        \A i, j \in 1..Len(balances) :
            LET lhs == balances[i]
                rhs == balances[j]
                r == CallComparefn(c, lhs, rhs)
                pl == PriorityOf(lhs.blockchain)
                pr == PriorityOf(rhs.blockchain)
            IN  {lhs.blockchain, rhs.blockchain} \cap ObjectPrototypeKeys = {}
                    => Sign(r) = (CASE pl > pr -> "negative"
                                    [] pl < pr -> "positive"
                                    [] pl = pr -> "zero")

\* the rows the first render of a variant produces on the inputs (bs, ps)
FirstRenderRows(v, bs, ps) ==
    CASE v = "exam" -> examRowsFactory(examSortedBalancesFactory(bs), ps)
      [] v = "refactored" -> refRowsOf(refFormattedBalancesFactory(bs, ps), ps)
      [] v = "optimal" -> optRowsOf(optFormattedBalancesFactory(bs, ps))

(* C12: in every reachable state, the rows of every variant equal the rows *)
(* that a first render on the current balances and prices produces (same   *)
(* rows in the same order with the same formattedAmount and usdValue),     *)
(* whatever inputs the earlier renders had.                                *)
C12_Deterministic ==
    \A v \in Variants : Rows(v) = FirstRenderRows(v, balances, prices)

\* both inputs were replaced since the first render and rows are shown
C12_Witness ==
    /\ balancesRef >= 1
    /\ pricesRef >= 1
    /\ \A v \in Variants : Len(Rows(v)) >= 2

(* C13: in every reachable state, the last render of every variant threw   *)
(* no error and produced a list with one row per retained balance; this    *)
(* covers the empty list, lists of zero amounts, lists on unknown chains,  *)
(* the empty price table and records without a usable amount.              *)
C13_NoError ==
    \A v \in Variants :
        /\ raised[v] = "none"
        /\ Len(Rows(v)) = Len(Retained(v))
        /\ \A i \in 1..Len(Rows(v)) : ~ToFixedThrows(Rows(v)[i].amount)

\* a render on an empty price table of a non-empty list that holds a zero
\* amount and an unknown chain and nothing that qualifies: no rows, no error
C13_Witness ==
    /\ prices = <<>>
    /\ \E i \in 1..Len(balances) : balances[i].amount = Num(0)
    /\ \E i \in 1..Len(balances) : balances[i].blockchain = "Bitcoin"
    /\ \A i \in 1..Len(balances) : ~Qualifies(balances[i])
    /\ \A v \in Variants : Rows(v) = <<>> /\ raised[v] = "none"

(* C14: the input balances array is never changed by a render: it starts   *)
(* as the list that was handed over, a step that hands over a new array    *)
(* leaves exactly that array in place, and every other step (price change, *)
(* re-render) leaves the array, its order and its records as they were.    *)
C14_InputUnchanged ==
    /\ balances \in BalanceLists
    /\ [][/\ balancesRef' = balancesRef => balances' = balances
          /\ balancesRef' # balancesRef => balances' \in ProviderUpdates]_vars

\* a render sorted a lower priority behind a higher one that follows it in
\* the input, after both inputs had been replaced
C14_Witness ==
    /\ balancesRef >= 1
    /\ pricesRef >= 1
    /\ \E i, j \in 1..Len(balances) :
           /\ i < j
           /\ Qualifies(balances[i])
           /\ Qualifies(balances[j])
           /\ PriorityOf(balances[i].blockchain)
                  < PriorityOf(balances[j].blockchain)
    /\ \A v \in Variants :
           [i \in 1..Len(Retained(v)) |-> AsBalance(Retained(v)[i])]
               # SelectSeq(balances, Qualifies)

(* C15: in every reachable state whose input balances have pairwise        *)
(* distinct (currency, chain) pairs, the keys of the rows of every variant *)
(* are pairwise distinct, also when one currency is held on two chains.    *)
C15_DistinctKeys ==
    (\A i, j \in 1..Len(balances) :
         i # j => <<balances[i].currency, balances[i].blockchain>>
                      # <<balances[j].currency, balances[j].blockchain>>)
        => \A v \in Variants :
               \A i, j \in 1..Len(Rows(v)) :
                   i # j => Rows(v)[i].key # Rows(v)[j].key

\* the same for the exam variant alone, whose key joins chain and currency
C15_ExamKeys ==
    (\A i, j \in 1..Len(balances) :
         i # j => <<balances[i].currency, balances[i].blockchain>>
                      # <<balances[j].currency, balances[j].blockchain>>)
        => \A i, j \in 1..Len(Rows("exam")) :
               i # j => Rows("exam")[i].key # Rows("exam")[j].key

\* a balance record that breaks the WalletBalance interface
Malformed(b) == b.amount.kind # "number" \/ b.blockchain = "undefined"

(* C16: in every reachable state whose input list holds a malformed        *)
(* balance (an amount that is no finite number, a missing field), the      *)
(* render of every variant failed with an error and shows no rows.         *)
C16_MalformedRejected ==
    (\E i \in 1..Len(balances) : Malformed(balances[i]))
        => \A v \in Variants : raised[v] # "none" /\ Rows(v) = <<>>

\* what the code does instead: it drops the malformed records without an
\* error and shows the rows of the others
C16_SilentlyDropped ==
    (\E i \in 1..Len(balances) : Malformed(balances[i]))
        => \A v \in Variants :
               /\ raised[v] = "none"
               /\ \A i \in 1..Len(Retained(v)) : ~Malformed(Retained(v)[i])
               /\ Len(Rows(v)) = Len(SelectSeq(balances, Qualifies))

(* C17: in every reachable state, so after any sequence of balance         *)
(* changes, price changes and re-renders, every row of every variant whose *)
(* currency has a price in the current table carries the usdValue amount   *)
(* times that price, and a row whose currency has none carries NaN or 0,   *)
(* never a value computed from a table that has been replaced.             *)
C17_CurrentPrices ==
    \A v \in Variants :
        \A i \in 1..Len(Rows(v)) :
            LET currency == Retained(v)[i].currency
                amount == Rows(v)[i].amount
            IN  IF currency \in DOMAIN prices
                THEN Rows(v)[i].usdValue = JsMul(prices[currency], amount)
                ELSE Rows(v)[i].usdValue \in {NaN, Num(0)}

\* the price table was replaced and the value memoized with the balances
\* of the refactored variant is out of date, while a priced row is shown
C17_Witness ==
    /\ pricesRef >= 1
    /\ \E i \in 1..Len(refRows) :
           /\ refFormattedBalances.value[i].currency \in DOMAIN prices
           /\ refFormattedBalances.value[i].usdValue.kind = "number"
           /\ refFormattedBalances.value[i].usdValue # refRows[i].usdValue

-----------------------------------------------------------------------------
(* Problem 1: the sum functions                                            *)

\* the largest absolute value of the integers every function is called on
MaxN == 12

\* JavaScript numbers the functions are called on: integers by their value,
\* other numbers by their thousandths
Integer(n) == [kind |-> "integer", v |-> n]

Frac(thousandths) == [kind |-> "fraction", v |-> thousandths]

NaNInput == [kind |-> "NaN", v |-> 0]

\* the result of a call: a returned number or a thrown Error
Return(value) == [kind |-> "return", value |-> value]

Throw(message) == [kind |-> "throw", message |-> message]

\* Number.isInteger(n)
IsInteger(n) == n.kind = "integer"

\* faulty variant: the test n < 0 lets 0 pass
validateInput_AcceptsZero(n) ==
    IF ~IsInteger(n) \/ n.v < 0
    THEN Throw("Input must be a positive integer")
    ELSE Return("undefined")

\* validateInput(n): throws, or returns nothing
validateInput(n) ==
    IF ~IsInteger(n) \/ n.v <= 0
    THEN Throw("Input must be a positive integer")
    ELSE Return("undefined")

RECURSIVE ForLoop(_, _, _)
\* for (let i = lo; i <= hi; i++) { sum += i; }: the value of sum after the
\* iterations i = lo, ..., hi in this order: the first half of them, then,
\* once their sum is a number, the second half on that sum
ForLoop(lo, hi, sum) ==
    IF lo > hi THEN sum
    ELSE IF lo = hi THEN sum + lo
    ELSE LET mid == (lo + hi) \div 2
             first == ForLoop(lo, mid, sum)
         IN  IF first \in Int THEN ForLoop(mid + 1, hi, first) ELSE first

sumToNIterative(n) ==
    IF validateInput(n).kind = "throw"
    THEN validateInput(n)
    ELSE Return(ForLoop(1, n.v, 0))

\* (a * b) / 2 for an even product a * b, which is exact in JavaScript up to
\* 2^53; the product itself is not formed, it passes the integers of TLC
HalfOfProduct(a, b) == a * (b \div 2) + (a * (b % 2)) \div 2

sumToNMathematical(n) ==
    IF validateInput(n).kind = "throw"
    THEN validateInput(n)
    ELSE Return(HalfOfProduct(n.v, n.v + 1))

RECURSIVE sumToNRecursive(_)
sumToNRecursive(n) ==
    IF validateInput(n).kind = "throw"
    THEN validateInput(n)
    ELSE IF n.v = 1
         THEN Return(1)
         ELSE LET rest == sumToNRecursive(Integer(n.v - 1))
              IN  IF rest.kind = "throw" THEN rest
                  ELSE Return(n.v + rest.value)

\* Array.from({ length: n }, (_, index) => index + 1)
ArrayFromLength(n) == [index \in 1..n |-> (index - 1) + 1]

RECURSIVE Reduce(_, _, _, _)
\* array.reduce((sum, num) => sum + num, sum) over the elements lo..hi of
\* the array, in this order
Reduce(array, lo, hi, sum) ==
    IF lo > hi THEN sum
    ELSE IF lo = hi THEN sum + array[lo]
    ELSE LET mid == (lo + hi) \div 2
             first == Reduce(array, lo, mid, sum)
         IN  IF first \in Int THEN Reduce(array, mid + 1, hi, first) ELSE first

sumToNFunctional(n) ==
    IF validateInput(n).kind = "throw"
    THEN validateInput(n)
    ELSE Return(Reduce(ArrayFromLength(n.v), 1, n.v, 0))

RECURSIVE WhileLoop(_, _, _)
\* while (i <= n) { sum += i; i++; } with i = lo and n = hi at its start: the
\* value of sum after the iterations i = lo, ..., hi in this order
WhileLoop(lo, hi, sum) ==
    IF lo > hi THEN sum
    ELSE IF lo = hi THEN sum + lo
    ELSE LET mid == (lo + hi) \div 2
             first == WhileLoop(lo, mid, sum)
         IN  IF first \in Int THEN WhileLoop(mid + 1, hi, first) ELSE first

sumToNWhile(n) ==
    IF validateInput(n).kind = "throw"
    THEN validateInput(n)
    ELSE Return(WhileLoop(1, n.v, 0))

\* function* range(start, end): the values it yields, in order
range(start, end) == [k \in 1..(end - start + 1) |-> start + (k - 1)]

RECURSIVE ForOf(_, _, _, _)
\* for (const num of ...) { sum += num; } over the yielded values lo..hi,
\* in this order
ForOf(yielded, lo, hi, sum) ==
    IF lo > hi THEN sum
    ELSE IF lo = hi THEN sum + yielded[lo]
    ELSE LET mid == (lo + hi) \div 2
             first == ForOf(yielded, lo, mid, sum)
         IN  IF first \in Int THEN ForOf(yielded, mid + 1, hi, first) ELSE first

sumToNGenerator(n) ==
    IF validateInput(n).kind = "throw"
    THEN validateInput(n)
    ELSE Return(ForOf(range(1, n.v), 1, n.v, 0))

TwoTo30 == 1073741824

\* (2 * half) >> 1 for 0 <= half < 2^31: >> converts its left operand to a
\* signed 32-bit integer, so a product of 2^31 or more wraps to a negative
\* number before it is shifted
ShiftRightOfDouble(half) ==
    IF half < TwoTo30 THEN half ELSE (half - TwoTo30) - TwoTo30

sumToNBitManipulation(n) ==
    IF validateInput(n).kind = "throw"
    THEN validateInput(n)
    ELSE Return(ShiftRightOfDouble(HalfOfProduct(n.v, n.v + 1)))

\* (n * (n + 1)) / 2, for an integer n
sum_to_n_a(n) == HalfOfProduct(n.v, n.v + 1)

sum_to_n_b(n) == ForLoop(1, n.v, 0)

RECURSIVE sum_to_n_c(_)
sum_to_n_c(n) == IF n.v <= 0 THEN 0 ELSE n.v + sum_to_n_c(Integer(n.v - 1))

\* const testCases = [1, 5, 10, 100, 1000]
testCases == {1, 5, 10, 100, 1000}

\* the deepest recursion the recursive functions are called with
MaxDepth == 40

\* arguments that are no integers
NonIntegers == {Frac(2500), Frac(-500), NaNInput}

\* the integers every function is called on
SmallIntegers == {Integer(n) : n \in (-MaxN)..MaxN}

\* integer arguments of the functions that recurse n deep
RecursionIntegers ==
    SmallIntegers \cup {Integer(n) : n \in {k \in testCases : k <= MaxDepth}}
        \cup {Integer(MaxDepth)}

\* integer arguments of the functions that count up to n: the test cases
\* and the n of the benchmark
LoopIntegers ==
    SmallIntegers \cup {Integer(n) : n \in testCases} \cup {Integer(10000)}

\* integer arguments of the functions that compute the sum in one step, with
\* the arguments around the first n whose product n * (n + 1) reaches 2^31,
\* and the largest n with n * (n + 1) below 2^32
DirectIntegers ==
    LoopIntegers \cup {Integer(46340), Integer(46341), Integer(65535)}

\* fn was called with arg and ended with outcome
CallOf(fn, arg, outcome) == [fn |-> fn, arg |-> arg, outcome |-> outcome]

\* JavaScript runs one call at a time: the caller takes the outcome before
\* the next call
Finish ==
    /\ call # NoCall
    /\ call' = NoCall
    /\ UNCHANGED <<walletVars, formVars, appVars>>

CallValidateInput ==
    /\ call = NoCall
    /\ \E n \in DirectIntegers \cup NonIntegers :
           call' = CallOf("validateInput", n, validateInput(n))
    /\ UNCHANGED <<walletVars, formVars, appVars>>

CallSumToNIterative ==
    /\ call = NoCall
    /\ \E n \in LoopIntegers \cup NonIntegers :
           call' = CallOf("sumToNIterative", n, sumToNIterative(n))
    /\ UNCHANGED <<walletVars, formVars, appVars>>

CallSumToNMathematical ==
    /\ call = NoCall
    /\ \E n \in DirectIntegers \cup NonIntegers :
           call' = CallOf("sumToNMathematical", n, sumToNMathematical(n))
    /\ UNCHANGED <<walletVars, formVars, appVars>>

CallSumToNRecursive ==
    /\ call = NoCall
    /\ \E n \in RecursionIntegers \cup NonIntegers :
           call' = CallOf("sumToNRecursive", n, sumToNRecursive(n))
    /\ UNCHANGED <<walletVars, formVars, appVars>>

CallSumToNFunctional ==
    /\ call = NoCall
    /\ \E n \in LoopIntegers \cup NonIntegers :
           call' = CallOf("sumToNFunctional", n, sumToNFunctional(n))
    /\ UNCHANGED <<walletVars, formVars, appVars>>

CallSumToNWhile ==
    /\ call = NoCall
    /\ \E n \in LoopIntegers \cup NonIntegers :
           call' = CallOf("sumToNWhile", n, sumToNWhile(n))
    /\ UNCHANGED <<walletVars, formVars, appVars>>

CallSumToNGenerator ==
    /\ call = NoCall
    /\ \E n \in LoopIntegers \cup NonIntegers :
           call' = CallOf("sumToNGenerator", n, sumToNGenerator(n))
    /\ UNCHANGED <<walletVars, formVars, appVars>>

CallSumToNBitManipulation ==
    /\ call = NoCall
    /\ \E n \in DirectIntegers \cup NonIntegers :
           call' = CallOf("sumToNBitManipulation", n, sumToNBitManipulation(n))
    /\ UNCHANGED <<walletVars, formVars, appVars>>

\* the three functions of the first solution file are called on integers
Call_sum_to_n_a ==
    /\ call = NoCall
    /\ \E n \in DirectIntegers :
           call' = CallOf("sum_to_n_a", n, Return(sum_to_n_a(n)))
    /\ UNCHANGED <<walletVars, formVars, appVars>>

Call_sum_to_n_b ==
    /\ call = NoCall
    /\ \E n \in LoopIntegers :
           call' = CallOf("sum_to_n_b", n, Return(sum_to_n_b(n)))
    /\ UNCHANGED <<walletVars, formVars, appVars>>

Call_sum_to_n_c ==
    /\ call = NoCall
    /\ \E n \in RecursionIntegers :
           call' = CallOf("sum_to_n_c", n, Return(sum_to_n_c(n)))
    /\ UNCHANGED <<walletVars, formVars, appVars>>

\* no call yet; the wallet page is mounted on empty inputs and stays so
SumInit ==
    /\ Mount(<<>>, <<>>)
    /\ call = NoCall
    /\ FormStart
    /\ AppStart

SumNext ==
    \/ CallValidateInput
    \/ CallSumToNIterative
    \/ CallSumToNMathematical
    \/ CallSumToNRecursive
    \/ CallSumToNFunctional
    \/ CallSumToNWhile
    \/ CallSumToNGenerator
    \/ CallSumToNBitManipulation
    \/ Call_sum_to_n_a
    \/ Call_sum_to_n_b
    \/ Call_sum_to_n_c
    \/ Finish

SumSpec == SumInit /\ [][SumNext]_vars

\* n * (n + 1) / 2 for the n of the model, whose half product fits TLC
Triangular(n) == IF n % 2 = 0 THEN (n \div 2) * (n + 1) ELSE n * ((n + 1) \div 2)

SumToNFunctions ==
    {"sumToNIterative", "sumToNMathematical", "sumToNRecursive",
     "sumToNFunctional", "sumToNWhile", "sumToNGenerator",
     "sumToNBitManipulation"}

(* C18: whenever one of the seven sumToN functions has been called with a  *)
(* positive integer n, it has returned n * (n + 1) / 2.                    *)
C18_ClosedForm ==
    (call.fn \in SumToNFunctions /\ call.arg.kind = "integer" /\ call.arg.v > 0)
        => call.outcome = Return(Triangular(call.arg.v))

\* the same for the arguments whose product n * (n + 1) is below 2^31, which
\* is where the seven functions agree
C18_Below46341 ==
    (call.fn \in SumToNFunctions /\ call.arg.kind = "integer"
         /\ call.arg.v > 0 /\ call.arg.v < 46341)
        => call.outcome = Return(Triangular(call.arg.v))

\* an argument that is no positive integer
Invalid(n) == n.kind # "integer" \/ n.v <= 0

(* C19: whenever one of the seven sumToN functions, or validateInput       *)
(* itself, has been called with an argument that is no positive integer    *)
(* (0, a negative integer, a non-integer), the call has thrown the error   *)
(* 'Input must be a positive integer' and returned no sum; validateInput   *)
(* called with a positive integer has not thrown.                          *)
C19_InvalidRejected ==
    /\ (call.fn \in SumToNFunctions \cup {"validateInput"} /\ Invalid(call.arg))
           => call.outcome = Throw("Input must be a positive integer")
    /\ (call.fn = "validateInput" /\ ~Invalid(call.arg))
           => call.outcome.kind = "return"

\* the function that computes in one step was called with 0 and threw
C19_Witness ==
    /\ call.fn = "sumToNMathematical"
    /\ call.arg = Integer(0)
    /\ call.outcome.kind = "throw"

SumToNOriginals == {"sum_to_n_a", "sum_to_n_b", "sum_to_n_c"}

(* C20: whenever sum_to_n_a, sum_to_n_b or sum_to_n_c has been called with *)
(* an integer n, it has returned the sum of the integers from 1 to n,      *)
(* which is 0 when n <= 0; so the three agree on every integer.            *)
C20_OriginalsAgree ==
    (call.fn \in SumToNOriginals /\ call.arg.kind = "integer")
        => call.outcome = Return(IF call.arg.v <= 0 THEN 0
                                 ELSE Triangular(call.arg.v))

\* the same for the integers from -1 on, where the closed form of
\* sum_to_n_a agrees with the loop and the recursion
C20_FromMinusOne ==
    (call.fn \in SumToNOriginals /\ call.arg.kind = "integer"
         /\ call.arg.v >= -1)
        => call.outcome = Return(IF call.arg.v <= 0 THEN 0
                                 ELSE Triangular(call.arg.v))

(* C25: whenever sumToNBitManipulation has been called with a positive     *)
(* integer n, the value (n * (n + 1)) >> 1 it returned equals              *)
(* n * (n + 1) / 2, also when n * (n + 1) is 2^31 or more.                 *)
C25_ShiftIsHalving ==
    (call.fn = "sumToNBitManipulation" /\ ~Invalid(call.arg))
        => call.outcome.value = Triangular(call.arg.v)

\* the same while the product n * (n + 1) is below 2^31, that is for the
\* n up to 46340
C25_BelowTwoTo31 ==
    (call.fn = "sumToNBitManipulation" /\ ~Invalid(call.arg)
         /\ Triangular(call.arg.v) < TwoTo30)
        => call.outcome.value = Triangular(call.arg.v)

(* C28: in every reachable state, the exam variant, the refactored variant *)
(* and the optimal variant retain the same balances in the same order.     *)
C28_VariantsAgree ==
    \A v, w \in Variants :
        [i \in 1..Len(Retained(v)) |-> AsBalance(Retained(v)[i])]
            = [i \in 1..Len(Retained(w)) |-> AsBalance(Retained(w)[i])]

\* a list with two balances of one priority and one of a higher priority
\* after them; every variant retains the three
C28_Witness ==
    /\ \E i, j, k \in 1..Len(balances) :
           /\ i < j
           /\ j < k
           /\ Qualifies(balances[i])
           /\ Qualifies(balances[j])
           /\ Qualifies(balances[k])
           /\ balances[i] # balances[j]
           /\ PriorityOf(balances[i].blockchain)
                  = PriorityOf(balances[j].blockchain)
           /\ PriorityOf(balances[j].blockchain)
                  < PriorityOf(balances[k].blockchain)
    /\ \A v \in Variants : Len(Retained(v)) = 3

-----------------------------------------------------------------------------
(***************************************************************************)
(* Problem 2, swap form: fetchPrices and init()                            *)
(***************************************************************************)

\* most records in the body of one price response
MaxRecords == 3

\* the currency codes of the price feed, in the order localeCompare gives
CurrencyNames == <<"BTC", "ETH", "USDC">>

\* position of a currency code in that order
CurrencyRank(c) == CHOOSE i \in 1..Len(CurrencyNames) : CurrencyNames[i] = c

\* a.localeCompare(b) on currency codes
localeCompare(a, b) ==
    IF CurrencyRank(a) < CurrencyRank(b) THEN -1
    ELSE IF CurrencyRank(a) > CurrencyRank(b) THEN 1 ELSE 0

\* one record of the feed; the date is the time value new Date(item.date) has
PriceItem(currency, price, date) ==
    [currency |-> currency, price |-> price, date |-> date]

\* the records fetchPrices is examined on: two currencies, a missing, a zero,
\* a negative and two positive prices, two dates
PriceItems ==
    { PriceItem(c, p, d) :
        c \in {"ETH", "USDC"},
        p \in {Undefined, Num(0), Num(-1000), Num(1000), Num(2000)},
        d \in 1..2 }

RECURSIVE SeqsUpTo(_, _)
\* all sequences over S with at most n elements
SeqsUpTo(S, n) ==
    IF n = 0 THEN {<<>>}
    ELSE LET shorter == SeqsUpTo(S, n - 1)
         IN  shorter \cup { Append(s, x) : s \in { t \in shorter : Len(t) = n - 1 },
                                           x \in S }

\* the response bodies fetchPrices is examined on
PriceResponses == SeqsUpTo(PriceItems, MaxRecords)

\* faulty variant: a negative price passes the test
hasValidPrice_Truthy(item) ==
    item.price.kind = "number" /\ item.price.v # 0

\* item.price && item.price > 0
hasValidPrice(item) ==
    /\ item.price.kind = "number" /\ item.price.v # 0
    /\ JsGt(item.price, Num(0))

\* tokenMap.has(key); the Map is the sequence of its values in insertion order
tokenMapHas(tokenMap, key) ==
    \E i \in 1..Len(tokenMap) : tokenMap[i].currency = key

\* tokenMap.get(key)
tokenMapGet(tokenMap, key) ==
    tokenMap[CHOOSE i \in 1..Len(tokenMap) : tokenMap[i].currency = key]

\* tokenMap.set(key, value): a new key goes last, a known key keeps its place
tokenMapSet(tokenMap, key, value) ==
    IF tokenMapHas(tokenMap, key)
    THEN [i \in 1..Len(tokenMap) |->
             IF tokenMap[i].currency = key THEN value ELSE tokenMap[i]]
    ELSE Append(tokenMap, value)

\* the body of the data.forEach callback, on one record
groupItem(tokenMap, item) ==
    IF ~hasValidPrice(item) THEN tokenMap
    ELSE IF ~tokenMapHas(tokenMap, item.currency)
         THEN tokenMapSet(tokenMap, item.currency, item)
         ELSE IF item.date > tokenMapGet(tokenMap, item.currency).date
              THEN tokenMapSet(tokenMap, item.currency, item)
              ELSE tokenMap

RECURSIVE forEachItem(_, _, _)
\* data.forEach from record i on
forEachItem(data, i, tokenMap) ==
    IF i > Len(data) THEN tokenMap
    ELSE forEachItem(data, i + 1, groupItem(tokenMap, data[i]))

RECURSIVE insertByCurrency(_, _)
\* place a token after the tokens that do not compare greater
insertByCurrency(token, sorted) ==
    IF sorted = <<>> THEN <<token>>
    ELSE IF localeCompare(Head(sorted).currency, token.currency) > 0
         THEN <<token>> \o sorted
         ELSE <<Head(sorted)>> \o insertByCurrency(token, Tail(sorted))

RECURSIVE sortByCurrency(_, _)
\* .sort((a, b) => a.currency.localeCompare(b.currency)), a stable sort
sortByCurrency(sorted, rest) ==
    IF rest = <<>> THEN sorted
    ELSE sortByCurrency(insertByCurrency(Head(rest), sorted), Tail(rest))

\* the token list fetchPrices assigns for the body of an ok response
fetchPrices(data) ==
    LET tokenMap == forEachItem(data, 1, <<>>)
        mapped   == [i \in 1..Len(tokenMap) |->
                        [currency |-> tokenMap[i].currency,
                         price |-> tokenMap[i].price]]
    IN  sortByCurrency(<<>>, mapped)

\* an ok response with the given body
OkResponse(data) == [ok |-> TRUE, data |-> data, arrived |-> TRUE]

\* a response whose status is not ok
NotOkResponse == [ok |-> FALSE, data |-> <<>>, arrived |-> TRUE]

\* init(): the price request comes back ok, fetchPrices builds the token
\* list and setupEventListeners runs
FetchResolves ==
    /\ initStage = "fetching"
    /\ \E data \in PriceResponses :
           /\ response' = OkResponse(data)
           /\ tokens' = fetchPrices(data)
    /\ initStage' = "ready"
    /\ UNCHANGED <<selectedFromToken, selectedToToken, currentModalTarget,
                   tokenModalDisplay, tokenListItems, isSwapping,
                   fromAmountValue, fromErrorText, submitDisabled,
                   successDisplay, swapTimers, resetTimers>>
    /\ UNCHANGED <<walletVars, call, appVars>>

\* init(): the response is not ok; fetchPrices throws, init() shows the error
\* and no listener is set up
FetchNotOk ==
    /\ initStage = "fetching"
    /\ response' = NotOkResponse
    /\ initStage' = "failed"
    /\ fromErrorText' = "Failed to load token prices. Please refresh the page."
    /\ UNCHANGED <<tokens, selectedFromToken, selectedToToken,
                   currentModalTarget, tokenModalDisplay, tokenListItems,
                   isSwapping, fromAmountValue, submitDisabled,
                   successDisplay, swapTimers, resetTimers>>
    /\ UNCHANGED <<walletVars, call, appVars>>

\* init(): the request itself rejects; the same catch blocks run
FetchRejects ==
    /\ initStage = "fetching"
    /\ response' = NoResponse
    /\ initStage' = "failed"
    /\ fromErrorText' = "Failed to load token prices. Please refresh the page."
    /\ UNCHANGED <<tokens, selectedFromToken, selectedToToken,
                   currentModalTarget, tokenModalDisplay, tokenListItems,
                   isSwapping, fromAmountValue, submitDisabled,
                   successDisplay, swapTimers, resetTimers>>
    /\ UNCHANGED <<walletVars, call, appVars>>

FetchInit ==
    /\ Mount(<<>>, <<>>)
    /\ call = NoCall
    /\ FormStart
    /\ AppStart

FetchNext ==
    \/ FetchResolves
    \/ FetchNotOk
    \/ FetchRejects

FetchSpec == FetchInit /\ [][FetchNext]_vars

\* the records of the response that belong to a currency and carry a price
\* greater than zero
PositiveRecords(c) ==
    { i \in 1..Len(response.data) :
        /\ response.data[i].currency = c
        /\ response.data[i].price.kind = "number"
        /\ response.data[i].price.v > 0 }

\* the latest-dated among them
LatestRecords(c) ==
    { i \in PositiveRecords(c) :
        \A j \in PositiveRecords(c) :
            response.data[j].date <= response.data[i].date }

\* the entries of the token list for a currency
TokenEntries(c) == { k \in 1..Len(tokens) : tokens[k].currency = c }

\* C21: after fetchPrices has succeeded, the token list holds exactly one
\* entry for each currency that has a record with a price above zero, none
\* for any other currency, and the entry carries the price of a latest-dated
\* record among the currency's positive-price records
C21_LatestPositivePrice ==
    initStage = "ready" =>
        \A n \in 1..Len(CurrencyNames) :
            LET c == CurrencyNames[n]
            IN  IF PositiveRecords(c) = {}
                THEN TokenEntries(c) = {}
                ELSE /\ Cardinality(TokenEntries(c)) = 1
                     /\ \A k \in TokenEntries(c) :
                            \E i \in LatestRecords(c) :
                                tokens[k].price = response.data[i].price

\* a currency whose later positive record comes first and differs in price
\* from an earlier one, next to a currency with only a negative price
C21_Witness ==
    /\ initStage = "ready"
    /\ Len(tokens) = 1
    /\ \E i, j, k \in 1..Len(response.data) :
           /\ i < j
           /\ {i, j} \subseteq PositiveRecords(response.data[i].currency)
           /\ response.data[i].date > response.data[j].date
           /\ response.data[i].price # response.data[j].price
           /\ response.data[k].currency # response.data[i].currency
           /\ response.data[k].price = Num(-1000)

-----------------------------------------------------------------------------
(***************************************************************************)
(* Problem 2, swap form: the handlers of the page                          *)
(***************************************************************************)

\* most resetForm timers pending at once: a swap takes two seconds and a
\* reset timer three, so a third cannot be set before the first has fired
MaxTimers == 2

\* the largest amount validateAmount accepts
Billion == 1000000000

\* the characters /[^0-9.]/g keeps
AmountChars == {DigitChar(d) : d \in 0..9} \cup {"."}

IsAmountChar(ch) == ch \in AmountChars

\* the positions of the decimal points of a text
DotsOf(value) == { i \in 1..Len(value) : value[i] = "." }

\* parts[0] + '.' + parts.slice(1).join(''): only the first point stays
keepFirstDot(value) ==
    LET first == CHOOSE i \in DotsOf(value) : \A j \in DotsOf(value) : i <= j
        keep(i) == value[i] # "." \/ i = first
        RECURSIVE from(_)
        from(i) == IF i > Len(value) THEN <<>>
                   ELSE IF keep(i) THEN <<value[i]>> \o from(i + 1)
                   ELSE from(i + 1)
    IN  from(1)

\* the value handleAmountInput writes back to the input
sanitizeAmount(raw) ==
    LET value == SelectSeq(raw, IsAmountChar)
    IN  IF Cardinality(DotsOf(value)) + 1 > 2 THEN keepFirstDot(value)
        ELSE value

\* the digit a digit character stands for
DigitValue(ch) == CHOOSE d \in 0..9 : DigitChar(d) = ch

RECURSIVE DigitsValue(_, _)
\* the number a run of digits stands for
DigitsValue(digits, acc) ==
    IF digits = <<>> THEN acc
    ELSE DigitsValue(Tail(digits), acc * 10 + DigitValue(Head(digits)))

\* parseFloat on a text of digits with at most one point: NaN without a
\* digit, else the whole part and whether the fraction is above zero
parseFloat(value) ==
    LET dot   == IF DotsOf(value) = {} THEN Len(value) + 1
                 ELSE CHOOSE i \in DotsOf(value) : TRUE
        whole == SubSeq(value, 1, dot - 1)
        frac  == SubSeq(value, dot + 1, Len(value))
    IN  IF whole = <<>> /\ frac = <<>>
        THEN [kind |-> "NaN", whole |-> 0, fracPositive |-> FALSE]
        ELSE [kind |-> "number", whole |-> DigitsValue(whole, 0),
              fracPositive |-> \E i \in 1..Len(frac) : frac[i] # "0"]

\* num > 0, false for NaN
GreaterThanZero(num) ==
    num.kind = "number" /\ (num.whole > 0 \/ num.fracPositive)

\* num > 1000000000, false for NaN
TooLarge(num) ==
    /\ num.kind = "number"
    /\ (num.whole > Billion \/ (num.whole = Billion /\ num.fracPositive))

\* the text validateAmount leaves in the error element
validateAmount(value) ==
    IF value = <<>> \/ value = <<"0">> \/ value = <<"0", ".">> THEN ""
    ELSE IF parseFloat(value).kind = "NaN" THEN "Please enter a valid number"
    ELSE IF ~GreaterThanZero(parseFloat(value))
         THEN "Amount must be greater than 0"
    ELSE IF TooLarge(parseFloat(value)) THEN "Amount too large"
    ELSE ""

\* the disabled property updateSubmitButton gives the submit button
updateSubmitButton(from, to, value, errorText) ==
    LET hasTokens      == from # Null /\ to # Null
        hasValidAmount == value # <<>> /\ GreaterThanZero(parseFloat(value))
        isValid        == hasTokens /\ hasValidAmount /\ errorText = ""
    IN  ~isValid

\* query is contained in the text, both as character sequences
Includes(text, query) ==
    \E i \in 0..(Len(text) - Len(query)) :
        SubSeq(text, i + 1, i + Len(query)) = query

\* currency.toLowerCase(), character by character
toLowerCase(currency) ==
    CASE currency = "BTC"  -> <<"b", "t", "c">>
      [] currency = "ETH"  -> <<"e", "t", "h">>
      [] currency = "USDC" -> <<"u", "s", "d", "c">>

\* the currencies of the items renderTokenList puts in the list: none for
\* an empty list, else every token but the one selected on the other side
renderTokenList(tokensToRender, target, from, to) ==
    LET isDisabled(token) ==
            \/ target = "from" /\ to # Null /\ to = token.currency
            \/ target = "to" /\ from # Null /\ from = token.currency
        shown == SelectSeq(tokensToRender, LAMBDA token : ~isDisabled(token))
    IN  IF Len(tokensToRender) = 0 THEN <<>>
        ELSE [i \in 1..Len(shown) |-> shown[i].currency]

\* the tokens handleTokenSearch renders for a lower-case, trimmed query
handleTokenSearch(query) ==
    IF query = <<>> THEN tokens
    ELSE SelectSeq(tokens,
                   LAMBDA token : Includes(toLowerCase(token.currency), query))

\* a feed of three currencies, and one where a currency comes twice and
\* another has no price above zero
SampleResponses ==
    { << PriceItem("ETH", Num(2000), 1), PriceItem("BTC", Num(1000), 1),
         PriceItem("USDC", Num(1000), 1) >>,
      << PriceItem("USDC", Num(1000), 2), PriceItem("ETH", Num(2000), 1),
         PriceItem("USDC", Num(2000), 1), PriceItem("BTC", Num(0), 1) >> }

\* the text of one billion
BillionText == <<"1", "0", "0", "0", "0", "0", "0", "0", "0", "0">>

\* what the user leaves in the amount input, before handleAmountInput
\* cleans it
AmountTexts ==
    { <<>>, <<"0">>, <<"0", ".">>, <<"0", ".", "0">>, <<".">>, <<"a", "5">>,
      <<"1", ".", "2", ".", "3">>, BillionText,
      SubSeq(BillionText, 1, 9) \o <<"1">> }

\* what the user leaves in the search input, lower-case and trimmed
SearchQueries == { <<>>, <<"c">>, <<"x">> }

\* the variables no handler of the swap form touches
FormFrame == <<walletVars, call, appVars, initStage, response, tokens>>

\* a click on a token selector: openTokenModal(target)
OpenTokenModal ==
    /\ initStage = "ready"
    /\ \E target \in {"from", "to"} :
           /\ currentModalTarget' = target
           /\ tokenListItems' =
                  renderTokenList(tokens, target, selectedFromToken,
                                  selectedToToken)
    /\ tokenModalDisplay' = "flex"
    /\ UNCHANGED <<selectedFromToken, selectedToToken, isSwapping,
                   fromAmountValue, fromErrorText, submitDisabled,
                   successDisplay, swapTimers, resetTimers>>
    /\ UNCHANGED FormFrame

\* the close button, the backdrop or Escape: closeTokenModal()
CloseTokenModal ==
    /\ initStage = "ready"
    /\ tokenModalDisplay = "flex"
    /\ tokenModalDisplay' = "none"
    /\ currentModalTarget' = Null
    /\ UNCHANGED <<selectedFromToken, selectedToToken, tokenListItems,
                   isSwapping, fromAmountValue, fromErrorText, submitDisabled,
                   successDisplay, swapTimers, resetTimers>>
    /\ UNCHANGED FormFrame

\* typing in the search input of the open modal: handleTokenSearch
TokenSearch ==
    /\ initStage = "ready"
    /\ tokenModalDisplay = "flex"
    /\ \E query \in SearchQueries :
           tokenListItems' =
               renderTokenList(handleTokenSearch(query), currentModalTarget,
                               selectedFromToken, selectedToToken)
    /\ UNCHANGED <<selectedFromToken, selectedToToken, currentModalTarget,
                   tokenModalDisplay, isSwapping, fromAmountValue,
                   fromErrorText, submitDisabled, successDisplay, swapTimers,
                   resetTimers>>
    /\ UNCHANGED FormFrame

\* a click on an item of the open modal's list: selectToken(currency)
SelectToken ==
    /\ initStage = "ready"
    /\ tokenModalDisplay = "flex"
    /\ \E i \in 1..Len(tokenListItems) :
           LET currency == tokenListItems[i]
           IN  /\ \E k \in 1..Len(tokens) : tokens[k].currency = currency
               /\ IF currentModalTarget = "from"
                  THEN /\ selectedFromToken' = currency
                       /\ UNCHANGED selectedToToken
                  ELSE /\ selectedToToken' = currency
                       /\ UNCHANGED selectedFromToken
    /\ tokenModalDisplay' = "none"
    /\ currentModalTarget' = Null
    /\ submitDisabled' =
           updateSubmitButton(selectedFromToken', selectedToToken',
                              fromAmountValue, fromErrorText)
    /\ UNCHANGED <<tokenListItems, isSwapping, fromAmountValue, fromErrorText,
                   successDisplay, swapTimers, resetTimers>>
    /\ UNCHANGED FormFrame

\* an input event of the amount field: handleAmountInput
AmountInput ==
    /\ initStage = "ready"
    /\ \E raw \in AmountTexts : fromAmountValue' = sanitizeAmount(raw)
    /\ fromErrorText' = validateAmount(fromAmountValue')
    /\ submitDisabled' =
           updateSubmitButton(selectedFromToken, selectedToToken,
                              fromAmountValue', fromErrorText')
    /\ UNCHANGED <<selectedFromToken, selectedToToken, currentModalTarget,
                   tokenModalDisplay, tokenListItems, isSwapping,
                   successDisplay, swapTimers, resetTimers>>
    /\ UNCHANGED FormFrame

\* a click on the direction button: swapTokenDirection()
SwapTokenDirection ==
    /\ initStage = "ready"
    /\ IF selectedFromToken = Null \/ selectedToToken = Null
       THEN UNCHANGED <<selectedFromToken, selectedToToken, submitDisabled>>
       ELSE /\ selectedFromToken' = selectedToToken
            /\ selectedToToken' = selectedFromToken
            /\ submitDisabled' =
                   updateSubmitButton(selectedFromToken', selectedToToken',
                                      fromAmountValue, fromErrorText)
    /\ UNCHANGED <<currentModalTarget, tokenModalDisplay, tokenListItems,
                   isSwapping, fromAmountValue, fromErrorText, successDisplay,
                   swapTimers, resetTimers>>
    /\ UNCHANGED FormFrame

\* faulty variant: the in-progress flag is not looked at
submitReturnsEarly_ButtonOnly == submitDisabled

\* if (isSwapping || submitBtn.disabled) return
submitReturnsEarly == isSwapping \/ submitDisabled

\* a submit event of the form: handleSwapSubmit up to its await
SubmitSwap ==
    /\ initStage = "ready"
    /\ swapTimers + resetTimers < MaxTimers
    /\ IF submitReturnsEarly
       THEN UNCHANGED <<fromErrorText, isSwapping, submitDisabled,
                        successDisplay, swapTimers>>
       ELSE IF selectedFromToken = Null \/ selectedToToken = Null
       THEN /\ fromErrorText' = "Please select tokens"
            /\ UNCHANGED <<isSwapping, submitDisabled, successDisplay,
                           swapTimers>>
       ELSE IF ~GreaterThanZero(parseFloat(fromAmountValue))
       THEN /\ fromErrorText' = "Please enter a valid amount"
            /\ UNCHANGED <<isSwapping, submitDisabled, successDisplay,
                           swapTimers>>
       ELSE /\ isSwapping' = TRUE
            /\ submitDisabled' = TRUE
            /\ successDisplay' = "none"
            /\ swapTimers' = swapTimers + 1
            /\ UNCHANGED fromErrorText
    /\ UNCHANGED <<selectedFromToken, selectedToToken, currentModalTarget,
                   tokenModalDisplay, tokenListItems, fromAmountValue,
                   resetTimers>>
    /\ UNCHANGED FormFrame

\* the two seconds of the simulated backend are over: the rest of the try
\* block and the finally block of handleSwapSubmit
SwapCompletes ==
    /\ swapTimers > 0
    /\ swapTimers' = swapTimers - 1
    /\ successDisplay' = "flex"
    /\ resetTimers' = resetTimers + 1
    /\ isSwapping' = FALSE
    /\ submitDisabled' = FALSE
    /\ UNCHANGED <<selectedFromToken, selectedToToken, currentModalTarget,
                   tokenModalDisplay, tokenListItems, fromAmountValue,
                   fromErrorText>>
    /\ UNCHANGED FormFrame

\* three seconds after a swap: resetForm() and the success message hides
ResetForm ==
    /\ resetTimers > 0
    /\ resetTimers' = resetTimers - 1
    /\ fromAmountValue' = <<>>
    /\ selectedFromToken' = Null
    /\ selectedToToken' = Null
    /\ fromErrorText' = ""
    /\ submitDisabled' = updateSubmitButton(Null, Null, <<>>, "")
    /\ successDisplay' = "none"
    /\ UNCHANGED <<currentModalTarget, tokenModalDisplay, tokenListItems,
                   isSwapping, swapTimers>>
    /\ UNCHANGED FormFrame

\* the swap form after init() has loaded a feed and set up the listeners
FormInit ==
    /\ Mount(<<>>, <<>>)
    /\ call = NoCall
    /\ AppStart
    /\ initStage = "ready"
    /\ \E data \in SampleResponses :
           /\ response = OkResponse(data)
           /\ tokens = fetchPrices(data)
    /\ FormIdle

FormNext ==
    \/ OpenTokenModal
    \/ CloseTokenModal
    \/ TokenSearch
    \/ SelectToken
    \/ AmountInput
    \/ SwapTokenDirection
    \/ SubmitSwap
    \/ SwapCompletes
    \/ ResetForm

FormSpec == FormInit /\ [][FormNext]_vars

ValidAmount(value) ==
    /\ GreaterThanZero(parseFloat(value))
    /\ ~TooLarge(parseFloat(value))

\* C22: the submit button is enabled only if a from-token and a to-token are
\* selected and the from-amount parses to a value above zero and at most
\* 1,000,000,000
C22_EnabledOnlyIfValid ==
    ~submitDisabled =>
        /\ selectedFromToken # Null
        /\ selectedToToken # Null
        /\ ValidAmount(fromAmountValue)

\* C27: when both are set, the selected from-token and the selected to-token
\* are not the same currency
C27_DistinctTokens ==
    (selectedFromToken # Null /\ selectedToToken # Null)
        => selectedFromToken # selectedToToken

-----------------------------------------------------------------------------
(***************************************************************************)
(* Problem 2, swap app: ApiService.fetchTokenPrices and loadInitialData    *)
(***************************************************************************)

\* a price of the swap app, in ten-thousandths (the fallback price of SWTH
\* is one ten-thousandth)
Price(tenThousandths) == Num(tenThousandths)

\* a price given as a text that is not a number
TextPrice == [kind |-> "string", v |-> 0]

\* the prices used when the request or its handling throws
fallbackPrices ==
    [SWTH |-> Price(1), ETH |-> Price(20000000), BTC |-> Price(400000000),
     USDC |-> Price(10000), USDT |-> Price(10000), DAI |-> Price(10000)]

\* the symbols of getAvailableTokenData
AvailableTokenSymbols ==
    {"SWTH", "ETH", "BTC", "USDC", "USDT", "DAI", "UNI", "LINK", "AAVE", "COMP"}

\* a record of the feed; a missing currency is the empty text
ApiItem(currency, price) == [currency |-> currency, price |-> price]

\* an element of the body that is null
NullItem == [currency |-> "", price |-> [kind |-> "null", v |-> 0]]

\* the elements bodies are built from: a present or missing currency with a
\* missing, zero, numeric or textual price, and null
ApiItems ==
    { ApiItem(c, p) :
        c \in {"SWTH", "ETH", ""},
        p \in {Undefined, Price(0), Price(10000), Price(20000), TextPrice} }
    \cup {NullItem}

\* what the price request can produce: a rejected request, a status that is
\* not ok, a body that is not JSON, a body that is not an array, an array
ApiResponses ==
    { [status |-> st, data |-> <<>>] :
        st \in {"rejected", "notOk", "badJson", "notArray"} }
    \cup { [status |-> "ok", data |-> d] : d \in SeqsUpTo(ApiItems, MaxRecords) }

\* parseFloat(token.price): the number itself, NaN for a text without one
parsePrice(price) == IF price.kind = "number" THEN price ELSE NaN

\* token.price && token.currency
hasPriceAndCurrency(token) ==
    /\ \/ token.price.kind = "number" /\ token.price.v # 0
       \/ token.price.kind = "string"
    /\ token.currency # ""

RECURSIVE reducePrices(_, _, _)
\* data.reduce from element i on: acc[token.currency] = parseFloat(token.price)
reducePrices(data, i, acc) ==
    IF i > Len(data) THEN acc
    ELSE LET token == data[i]
             next  == IF hasPriceAndCurrency(token)
                      THEN [c \in DOMAIN acc \cup {token.currency} |->
                               IF c = token.currency
                               THEN parsePrice(token.price) ELSE acc[c]]
                      ELSE acc
         IN  reducePrices(data, i + 1, next)

\* reading token.price of null throws a TypeError inside the try block
reduceThrows(data) == \E i \in 1..Len(data) : data[i] = NullItem

\* the prices fetchTokenPrices resolves with
fetchTokenPrices(resp) ==
    IF resp.status # "ok" \/ reduceThrows(resp.data) THEN fallbackPrices
    ELSE reducePrices(resp.data, 1, <<>>)

\* the balances Math.random() * (MAX_BALANCE - MIN_BALANCE) + MIN_BALANCE
\* is examined on, in thousandths
MockBalanceSamples == {Whole(100), Whole(600)}

\* getAvailableTokens(): the listed tokens that have a price
getAvailableTokens(tokenPrices) == AvailableTokenSymbols \cap DOMAIN tokenPrices

\* initialize(): loadInitialData stores the prices and the mock balances,
\* setupEventListeners and initializeUI run
Initialize ==
    /\ appStage = "loading"
    /\ \E resp \in ApiResponses :
           /\ apiResponse' = resp
           /\ \E mock \in [getAvailableTokens(fetchTokenPrices(resp))
                               -> MockBalanceSamples] :
                  appState' = [appState EXCEPT
                                  !.tokenPrices = fetchTokenPrices(resp),
                                  !.userBalances = mock]
    /\ appStage' = "ready"
    /\ swapButtonDisabled' = TRUE
    /\ UNCHANGED <<currentModalType, fromAmountInput, toAmountInput,
                   pendingSwaps, disableTimers, swapsSubmitted>>
    /\ UNCHANGED <<walletVars, call, formVars>>

LoadInit ==
    /\ Mount(<<>>, <<>>)
    /\ call = NoCall
    /\ FormStart
    /\ AppStart

LoadNext == Initialize

LoadSpec == LoadInit /\ [][LoadNext]_vars

\* the request failed, the status was not ok, or the body could not be
\* parsed or reduced
RequestFailed ==
    apiResponse.status \in {"rejected", "notOk", "badJson", "notArray"}
        \/ (apiResponse.status = "ok" /\ reduceThrows(apiResponse.data))

\* C24: fetchTokenPrices resolves with the fallback prices whenever the
\* request fails, so loadInitialData always ends with a price table that is
\* not empty
C24_NonEmptyPriceTable ==
    appStage = "ready" =>
        /\ RequestFailed => appState.tokenPrices = fallbackPrices
        /\ DOMAIN appState.tokenPrices # {}

\* C24, the part about failures alone: after a failed request the price
\* table is the fallback table, with its six tokens
C24_FallbackOnFailure ==
    (appStage = "ready" /\ RequestFailed) =>
        /\ appState.tokenPrices = fallbackPrices
        /\ DOMAIN appState.tokenPrices
               = {"SWTH", "ETH", "BTC", "USDC", "USDT", "DAI"}

-----------------------------------------------------------------------------
(***************************************************************************)
(* Problem 2, swap app: the handlers of the page.  Amounts and balances    *)
(* are in thousandths, prices in ten-thousandths.                          *)
(***************************************************************************)

\* most simulated swaps started in one run of the page
MaxSwaps == 2

\* parseFloat(value) || 0 on the text of an amount input, in thousandths
parseAmount(value) ==
    LET dot   == IF DotsOf(value) = {} THEN Len(value) + 1
                 ELSE CHOOSE i \in DotsOf(value) : TRUE
        whole == SubSeq(value, 1, dot - 1)
        frac  == SubSeq(SubSeq(value, dot + 1, Len(value)) \o <<"0", "0", "0">>,
                        1, 3)
    IN  IF parseFloat(value).kind = "NaN" THEN Num(0)
        ELSE Num(DigitsValue(whole, 0) * 1000 + DigitsValue(frac, 0))

\* amount.toFixed(CONFIG.PRECISION) for an amount in thousandths: its three
\* decimals and three zeros
toFixedPrecision(amount) == ToFixed(amount, 3) \o <<"0", "0", "0">>

RECURSIVE GCD(_, _)
GCD(a, b) == IF b = 0 THEN a ELSE GCD(b, a % b)

\* getTokenPrice(symbol): the stored price, null (here NaN) when there is
\* none or it is NaN
getTokenPrice(state, symbol) ==
    IF symbol \in DOMAIN state.tokenPrices THEN state.tokenPrices[symbol]
    ELSE NaN

\* calculateToAmount: fromAmount * (fromPrice / toPrice), null (here NaN)
\* when a price is missing
calculateToAmount(state, fromAmount, fromToken, toToken) ==
    LET fromPrice == getTokenPrice(state, fromToken)
        toPrice   == getTokenPrice(state, toToken)
        g         == GCD(fromPrice.v, toPrice.v)
    IN  IF fromPrice.kind # "number" \/ toPrice.kind # "number" THEN NaN
        ELSE Num((fromAmount.v * (fromPrice.v \div g)) \div (toPrice.v \div g))

\* getUserBalance(symbol): userBalances.get(symbol) || 0
getUserBalance(state, symbol) ==
    IF symbol \in DOMAIN state.userBalances THEN state.userBalances[symbol]
    ELSE Num(0)

\* ValidationService.validateSwap(...).isValid
validateSwap(fromAmount, toAmount, state) ==
    /\ fromAmount.v > 0 /\ toAmount.v > 0
    /\ state.selectedFromToken # state.selectedToToken
    /\ ~(fromAmount.v > getUserBalance(state, state.selectedFromToken).v)

\* the balances updateBalancesAfterSwap stores
updateBalancesAfterSwap(state, fromToken, toToken, fromAmount, toAmount) ==
    LET currentFromBalance == getUserBalance(state, fromToken)
        currentToBalance   == getUserBalance(state, toToken)
        debited == [s \in DOMAIN state.userBalances \cup {fromToken} |->
                       IF s = fromToken
                       THEN JsSub(currentFromBalance, fromAmount)
                       ELSE state.userBalances[s]]
    IN  [s \in DOMAIN debited \cup {toToken} |->
            IF s = toToken THEN Num(currentToBalance.v + toAmount.v)
            ELSE debited[s]]

\* the text calculateToAmount of the page writes to the to-amount field
toAmountText(state, fromAmount) ==
    LET toAmount == calculateToAmount(state, fromAmount,
                                      state.selectedFromToken,
                                      state.selectedToToken)
    IN  IF fromAmount.v = 0 \/ toAmount.kind # "number" THEN <<>>
        ELSE toFixedPrecision(toAmount)

\* what the user leaves in the from-amount field
SwapAmountTexts == { <<>>, <<"4", "0", "0">> }

\* a feed with whole prices for the two tokens selected at the start
SampleFeed == << ApiItem("SWTH", Price(10000)), ApiItem("ETH", Price(20000)) >>

\* the variables no handler of the swap app touches
AppFrame == <<walletVars, call, formVars, appStage, apiResponse>>

\* an input event of the from-amount field: handleFromAmountChange
FromAmountChange ==
    /\ appStage = "ready"
    /\ \E text \in SwapAmountTexts : fromAmountInput' = text
    /\ toAmountInput' = toAmountText(appState, parseAmount(fromAmountInput'))
    /\ swapButtonDisabled' =
           ~validateSwap(parseAmount(fromAmountInput'),
                         parseAmount(toAmountInput'), appState)
    /\ UNCHANGED <<appState, currentModalType, pendingSwaps, disableTimers,
                   swapsSubmitted>>
    /\ UNCHANGED AppFrame

\* a click on a token selector: openModal(type)
OpenModal ==
    /\ appStage = "ready"
    /\ \E type \in {"from", "to"} : currentModalType' = type
    /\ UNCHANGED <<appState, fromAmountInput, toAmountInput,
                   swapButtonDisabled, pendingSwaps, disableTimers,
                   swapsSubmitted>>
    /\ UNCHANGED AppFrame

\* the close button, the backdrop or Escape: closeModal()
CloseModal ==
    /\ appStage = "ready"
    /\ currentModalType # Null
    /\ currentModalType' = Null
    /\ UNCHANGED <<appState, fromAmountInput, toAmountInput,
                   swapButtonDisabled, pendingSwaps, disableTimers,
                   swapsSubmitted>>
    /\ UNCHANGED AppFrame

\* a click on an option of the open modal: ModalService.selectToken(symbol)
ModalSelectToken ==
    /\ appStage = "ready"
    /\ currentModalType # Null
    /\ \E symbol \in getAvailableTokens(appState.tokenPrices) :
           appState' = IF currentModalType = "from"
                       THEN [appState EXCEPT !.selectedFromToken = symbol]
                       ELSE [appState EXCEPT !.selectedToToken = symbol]
    /\ currentModalType' = Null
    /\ UNCHANGED <<fromAmountInput, toAmountInput, swapButtonDisabled,
                   pendingSwaps, disableTimers, swapsSubmitted>>
    /\ UNCHANGED AppFrame

\* a click on the direction button: swapTokens()
SwapTokens ==
    /\ appStage = "ready"
    /\ appState' = [appState EXCEPT
                       !.selectedFromToken = appState.selectedToToken,
                       !.selectedToToken = appState.selectedFromToken]
    /\ fromAmountInput' = toAmountInput
    /\ toAmountInput' = fromAmountInput
    /\ swapButtonDisabled' =
           ~validateSwap(parseAmount(fromAmountInput'),
                         parseAmount(toAmountInput'), appState')
    /\ UNCHANGED <<currentModalType, pendingSwaps, disableTimers,
                   swapsSubmitted>>
    /\ UNCHANGED AppFrame

\* a submit event of the form, which the browser sends only while the swap
\* button is enabled: handleSwapSubmit up to its await
HandleSwapSubmit ==
    /\ appStage = "ready"
    /\ ~swapButtonDisabled
    /\ swapsSubmitted < MaxSwaps
    /\ LET fromAmount == parseAmount(fromAmountInput)
           toAmount   == parseAmount(toAmountInput)
       IN  IF ~validateSwap(fromAmount, toAmount, appState)
           THEN UNCHANGED <<swapButtonDisabled, pendingSwaps, swapsSubmitted>>
           ELSE /\ swapButtonDisabled' = TRUE
                /\ pendingSwaps' =
                       Append(pendingSwaps,
                              [fromAmount |-> fromAmount, toAmount |-> toAmount])
                /\ swapsSubmitted' = swapsSubmitted + 1
    /\ UNCHANGED <<appState, currentModalType, fromAmountInput, toAmountInput,
                   disableTimers>>
    /\ UNCHANGED AppFrame

\* the timer of simulateSwap fires for the oldest pending call, with either
\* outcome of Math.random() > 0.05: the rest of handleSwapSubmit
SwapResolves ==
    /\ pendingSwaps # <<>>
    /\ pendingSwaps' = Tail(pendingSwaps)
    /\ \E success \in BOOLEAN :
           IF success
           THEN /\ appState' =
                       [appState EXCEPT !.userBalances =
                           updateBalancesAfterSwap(
                               appState, appState.selectedFromToken,
                               appState.selectedToToken,
                               Head(pendingSwaps).fromAmount,
                               Head(pendingSwaps).toAmount)]
                /\ fromAmountInput' = <<>>
                /\ toAmountInput' = <<>>
                /\ swapButtonDisabled' = FALSE
                /\ disableTimers' = disableTimers + 1
           ELSE UNCHANGED <<appState, fromAmountInput, toAmountInput,
                            swapButtonDisabled, disableTimers>>
    /\ UNCHANGED <<currentModalType, swapsSubmitted>>
    /\ UNCHANGED AppFrame

\* three seconds after a success: the timer of showSuccessState
DisableTimerFires ==
    /\ disableTimers > 0
    /\ disableTimers' = disableTimers - 1
    /\ swapButtonDisabled' = TRUE
    /\ UNCHANGED <<appState, currentModalType, fromAmountInput, toAmountInput,
                   pendingSwaps, swapsSubmitted>>
    /\ UNCHANGED AppFrame

\* the swap app after initialize() has loaded the sample feed
AppInit ==
    /\ Mount(<<>>, <<>>)
    /\ call = NoCall
    /\ FormStart
    /\ appStage = "ready"
    /\ apiResponse = [status |-> "ok", data |-> SampleFeed]
    /\ \E mock \in [getAvailableTokens(fetchTokenPrices(apiResponse))
                        -> MockBalanceSamples] :
           appState = [NewAppState EXCEPT
                          !.tokenPrices = fetchTokenPrices(apiResponse),
                          !.userBalances = mock]
    /\ currentModalType = Null
    /\ fromAmountInput = <<>>
    /\ toAmountInput = <<>>
    /\ swapButtonDisabled = TRUE
    /\ pendingSwaps = <<>>
    /\ disableTimers = 0
    /\ swapsSubmitted = 0

AppNext ==
    \/ FromAmountChange
    \/ OpenModal
    \/ CloseModal
    \/ ModalSelectToken
    \/ SwapTokens
    \/ HandleSwapSubmit
    \/ SwapResolves
    \/ DisableTimerFires

AppSpec == AppInit /\ [][AppNext]_vars

\* C23: no user balance of the swap app is ever negative
C23_NoNegativeBalance ==
    \A s \in DOMAIN appState.userBalances : appState.userBalances[s].v >= 0

====
